---- MODULE Spec2Model ----
(***************************************************************************)
(* Model of src/main.py, a Streamlit crypto dashboard.  One execution of   *)
(* the script is one page render: five price cards, each filled by a call  *)
(* of fetch_price, then the parameter form, the chart update logic, the    *)
(* auto-load of the default chart, and the chart and table display.        *)
(*                                                                         *)
(* Units.  A JSON number Price is held in thousandths (1234500 is 1234.5); *)
(* a JSON number Change24h is held in tenths of a percent (-21 is -2.1).   *)
(* A Python str that the code takes apart (the symbol argument) is a       *)
(* sequence of one-character strings; every other str is a TLA+ string.    *)
(***************************************************************************)
EXTENDS Integers, Sequences, FiniteSets, TLC

VARIABLES
    chart_loaded,   \* st.session_state.chart_loaded
    pc,             \* position of the script within the current render
    cards,          \* price cards rendered so far in this render
    fetched,        \* symbols fetch_price was invoked with in this render
    gets,           \* URLs of the HTTP GETs issued in this render
    arg,            \* argument of the latest fetch_price call
    upstream,       \* what the quotation API did on the latest call
    quote,          \* value returned by the latest fetch_price call
    raised,         \* exception that escaped the latest call or the render
    form,           \* widget values of params_form in this render
    hist_df,        \* the script's hist_df variable
    errors,         \* st.error messages shown in this render
    requests,       \* history requests sent to the provider in this render
    answers,        \* what the provider answered to each of those requests
    chart,          \* dataframe given to chart.set in this render
    table,          \* dataframe given to st.dataframe in this render
    prev            \* the previous form submission and the request it made

vars == <<chart_loaded, pc, cards, fetched, gets, arg, upstream, quote, raised,
          form, hist_df, errors, requests, answers, chart, table, prev>>

\* Python's None, and a present value, for variables that hold either.
None == <<>>
Some(x) == <<x>>

(***************************************************************************)
(* Values                                                                  *)
(***************************************************************************)
\* A JSON value found (or not) under a key of the response object.
Absent == [t |-> "absent", v |-> 0]
Null == [t |-> "null", v |-> 0]
Num(n) == [t |-> "num", v |-> n]
Str(n) == [t |-> "str", v |-> n]

\* The literal 0 that fetch_price returns as change_percent.
Zero == Num(0)

Min(S) == CHOOSE x \in S : \A y \in S : x <= y

RECURSIVE Join(_)
\* ''.join(chars)
Join(cs) == IF cs = <<>> THEN "" ELSE Head(cs) \o Join(Tail(cs))

(***************************************************************************)
(* fetch_price (src/main.py lines 79-162)                                  *)
(***************************************************************************)
Digit(d) == <<"0", "1", "2", "3", "4", "5", "6", "7", "8", "9">>[d + 1]

RECURSIVE Dec(_)
\* The decimal digits of a natural number.
Dec(n) == IF n < 10 THEN Digit(n) ELSE Dec(n \div 10) \o Digit(n % 10)

\* Three digits, zero-padded: one group after a thousands separator.
Pad3(n) == Digit(n \div 100) \o Digit((n \div 10) % 10) \o Digit(n % 10)

RECURSIVE Grouped(_)
\* The ',' option of the format spec: digits grouped by thousands.
Grouped(n) == IF n < 1000 THEN Dec(n)
              ELSE Grouped(n \div 1000) \o "," \o Pad3(n % 1000)

\* The '.2f' part: thousandths rounded to hundredths, ties to even.  (Exact
\* for the values used here: a tie x.xx5 is an exact binary float only when
\* it is a multiple of 0.125.)
RoundCents(a) ==
    LET q == a \div 10
        r == a % 10
    IN  IF r > 5 \/ (r = 5 /\ q % 2 = 1) THEN q + 1 ELSE q

\* f"{x:,.2f}" for x given in thousandths.
Format2f(mills) ==
    LET a == IF mills < 0 THEN 0 - mills ELSE mills
        c == RoundCents(a)
    IN  (IF mills < 0 THEN "-" ELSE "") \o Grouped(c \div 100) \o "."
            \o Digit((c \div 10) % 10) \o Digit(c % 10)

\* f"${price:,.2f}" (line 155).
FormatPrice(mills) == "$" \o Format2f(mills)

\* dia_symbols (lines 105-111).
ZeroAddress == "0x0000000000000000000000000000000000000000"
dia_symbols ==
    [c \in {"BTC", "ETH", "XMR", "SOL", "XRP"} |->
        CASE c = "BTC" -> <<"Bitcoin", ZeroAddress>>
          [] c = "ETH" -> <<"Ethereum", ZeroAddress>>
          [] c = "XMR" -> <<"Monero", ZeroAddress>>
          [] c = "SOL" -> <<"Solana", ZeroAddress>>
          [] c = "XRP" -> <<"XRP", ZeroAddress, "XRPL">>]

\* symbol.split('/')[0] (line 114), on a sequence of characters.
FirstSegment(s) ==
    LET cut == {i \in 1..Len(s) : s[i] = "/"}
    IN  IF cut = {} THEN s ELSE SubSeq(s, 1, Min(cut) - 1)

\* The two ways a block of Python ends: a return or a raised exception.
\* gets is the sequence of URLs requested on the way.
Return(v) == [kind |-> "return", value |-> v, exc |-> "", gets |-> <<>>]
Raise(e) == [kind |-> "raise", value |-> <<"", Zero>>, exc |-> e, gets |-> <<>>]

\* Exception classes: httpx.TimeoutException and its subclasses, and the
\* subclasses of Exception that the body of fetch_price can raise.
TimeoutException == {"ReadTimeout", "ConnectTimeout"}
Exception == TimeoutException
                \cup {"ConnectError", "JSONDecodeError", "AttributeError",
                      "ValueError", "TypeError"}

\* Extract without lines 151-152: a null Change24h is returned as it is.
ExtractKeepsNull(data) ==
    IF data.kind # "object" THEN Raise("AttributeError")
    ELSE IF data.Price.t \in {"absent", "null"}
    THEN Return(<<"Price not available", Zero>>)
    ELSE LET change_percent ==
                 IF data.Change24h.t = "absent" THEN Zero ELSE data.Change24h
         IN  IF data.Price.t # "num" THEN Raise("ValueError")
             ELSE Return(<<FormatPrice(data.Price.v), change_percent>>)

\* Lines 145-155: price extraction from the parsed body.  data.get on a
\* body that is not a JSON object raises AttributeError; the format spec
\* applied to a str raises ValueError.
Extract(data) ==
    IF data.kind # "object" THEN Raise("AttributeError")
    ELSE IF data.Price.t \in {"absent", "null"}
    THEN Return(<<"Price not available", Zero>>)
    ELSE LET got == IF data.Change24h.t = "absent" THEN Zero ELSE data.Change24h
             change_percent == IF got.t = "null" THEN Zero ELSE got
         IN  IF data.Price.t # "num" THEN Raise("ValueError")
             ELSE Return(<<FormatPrice(data.Price.v), change_percent>>)

\* Respond with the body parsed before the status is looked at.
RespondParseFirst(response) ==
    IF response.body.kind = "malformed" THEN Raise("JSONDecodeError")
    ELSE IF response.status_code # 200 THEN Return(<<"API Error", Zero>>)
    ELSE Extract(response.body)

\* Lines 135-139: the status check, then response.json().
Respond(response) ==
    IF response.status_code # 200 THEN Return(<<"API Error", Zero>>)
    ELSE IF response.body.kind = "malformed" THEN Raise("JSONDecodeError")
    ELSE Extract(response.body)

\* Line 132: httpx.get(url, timeout=10) and what follows it.
Get(url, up) ==
    LET r == IF up.net # "ok" THEN Raise(up.net) ELSE Respond(up.response)
    IN  [r EXCEPT !.gets = <<url>>]

\* TryBody with the request issued before the symbol is validated.
TryBodyRequestFirst(symbol, up) ==
    IF symbol.t # "str" THEN Raise("AttributeError")
    ELSE LET crypto == Join(FirstSegment(symbol.s))
         IN  IF crypto \notin DOMAIN dia_symbols
             THEN [Return(<<"Symbol not supported", Zero>>)
                      EXCEPT !.gets = <<"https://api.diadata.org/v1/assetQuotation/"
                                            \o crypto \o "/" \o ZeroAddress>>]
             ELSE LET dia_info == dia_symbols[crypto]
                      dia_name == dia_info[1]
                      address == dia_info[2]
                      blockchain == IF Len(dia_info) > 2 THEN dia_info[3] ELSE dia_name
                  IN  Get("https://api.diadata.org/v1/assetQuotation/"
                              \o blockchain \o "/" \o address, up)

\* Lines 98-155: the body of the try statement.
TryBody(symbol, up) ==
    IF symbol.t # "str" THEN Raise("AttributeError")
    ELSE LET crypto == Join(FirstSegment(symbol.s))
         IN  IF crypto \notin DOMAIN dia_symbols
             THEN Return(<<"Symbol not supported", Zero>>)
             ELSE LET dia_info == dia_symbols[crypto]
                      dia_name == dia_info[1]
                      address == dia_info[2]
                      blockchain == IF Len(dia_info) > 2 THEN dia_info[3] ELSE dia_name
                  IN  Get("https://api.diadata.org/v1/assetQuotation/"
                              \o blockchain \o "/" \o address, up)

\* Except without the catch-all clause of lines 160-162.
ExceptTimeoutOnly(b) ==
    IF b.kind = "return" THEN b
    ELSE IF b.exc \in TimeoutException
    THEN [Return(<<"Request timeout", Zero>>) EXCEPT !.gets = b.gets]
    ELSE b

\* Lines 157-162: the except clauses.
Except(b) ==
    IF b.kind = "return" THEN b
    ELSE IF b.exc \in TimeoutException
    THEN [Return(<<"Request timeout", Zero>>) EXCEPT !.gets = b.gets]
    ELSE IF b.exc \in Exception
    THEN [Return(<<"Error", Zero>>) EXCEPT !.gets = b.gets]
    ELSE b

\* fetch_price(symbol) when the quotation API behaves as up.
fetch_price(symbol, up) == Except(TryBody(symbol, up))

(***************************************************************************)
(* The history dataframe (lines 291-305 and 320-328, 413-434)              *)
(***************************************************************************)
Range(f) == {f[i] : i \in DOMAIN f}

\* hist.reset_index(): the index becomes the first column.
reset_index(hist) ==
    [columns |-> <<hist.index_name>> \o hist.columns,
     rows |-> [i \in 1..Len(hist.index) |-> <<hist.index[i]>> \o hist.rows[i]]]

\* Position of a column label in a dataframe.
Loc(df, name) == CHOOSE i \in 1..Len(df.columns) : df.columns[i] = name

\* df[names]: the named columns, in the order asked for, every row kept.
SelectColumns(df, names) ==
    [columns |-> names,
     rows |-> [i \in 1..Len(df.rows) |->
                  [k \in 1..Len(names) |-> df.rows[i][Loc(df, names[k])]]]]

\* df.columns = names
SetColumns(df, names) == [df EXCEPT !.columns = names]

\* pd.to_datetime on the time column: the provider's index is already a
\* datetime index, whose values the conversion returns as they are.
to_datetime(df) ==
    [df EXCEPT !.rows = [i \in 1..Len(df.rows) |->
                            [df.rows[i] EXCEPT ![Loc(df, "time")] = @]]]

\* str(KeyError) of a column selection that misses labels.
RECURSIVE Quoted(_)
Quoted(names) ==
    IF names = <<>> THEN ""
    ELSE "'" \o Head(names) \o "'"
            \o (IF Tail(names) = <<>> THEN "" ELSE ", " \o Quoted(Tail(names)))
KeyErrorText(names) == "\"[" \o Quoted(names) \o "] not in index\""

OhlcvLabels == <<"Date", "Open", "High", "Low", "Close", "Volume">>
CanonicalLabels == <<"time", "open", "high", "low", "close", "volume">>

\* Transform without the column selection of line 301.
TransformKeepsAll(hist) ==
    LET df == reset_index(hist)
    IN  [kind |-> "return",
         df |-> Some(to_datetime(
                    [df EXCEPT !.columns =
                        [k \in 1..Len(df.columns) |->
                            IF k <= Len(CanonicalLabels)
                            THEN CanonicalLabels[k] ELSE df.columns[k]]])),
         text |-> ""]

\* Lines 299-305 (and 325-328): reshape the provider's frame.  A label the
\* frame lacks makes the selection raise KeyError.
Transform(hist) ==
    LET df == reset_index(hist)
        missing == SelectSeq(OhlcvLabels, LAMBDA n : n \notin Range(df.columns))
    IN  IF missing # <<>>
        THEN [kind |-> "raise", df |-> None, text |-> KeyErrorText(missing)]
        ELSE [kind |-> "return",
              df |-> Some(to_datetime(SetColumns(SelectColumns(df, OhlcvLabels),
                                                 CanonicalLabels))),
              text |-> ""]

\* dt.strftime('%Y-%m-%d') of a day of January 2024.
Strftime(day) == "2024-01-" \o Digit(day \div 10) \o Digit(day % 10)

\* Lines 413-434: the formatted copy shown in the data table.
DisplayFrame(df) ==
    [columns |-> df.columns,
     rows |-> [i \in 1..Len(df.rows) |->
                  [k \in 1..Len(df.columns) |->
                      CASE df.columns[k] = "time" -> Strftime(df.rows[i][k])
                        [] df.columns[k] = "volume" -> Grouped(df.rows[i][k])
                        [] OTHER -> FormatPrice(df.rows[i][k])]]]

(***************************************************************************)
(* Inputs                                                                  *)
(***************************************************************************)
\* Largest number of rows the history provider returns.
MaxRows == 2

\* What the quotation API can do on one GET.
NoBody == [kind |-> "malformed", Price |-> Absent, Change24h |-> Absent]
NoResponse == [status_code |-> 0, body |-> NoBody]
NoUpstream == [net |-> "none", response |-> NoResponse]
PriceValues == {Absent, Null, Str(1), Num(1234500), Num(125), Num(1000000000)}
ChangeValues == {Absent, Null, Str(1), Num(0 - 21), Num(5)}
Bodies ==
    {NoBody, [NoBody EXCEPT !.kind = "list"]}
        \cup [kind : {"object"}, Price : PriceValues, Change24h : ChangeValues]
Upstreams ==
    {[net |-> n, response |-> NoResponse] :
        n \in {"ReadTimeout", "ConnectTimeout", "ConnectError"}}
        \cup {[net |-> "ok", response |-> r] :
                r \in [status_code : {200, 404, 500}, body : Bodies]}

ObjectBody(price, change) ==
    [kind |-> "object", Price |-> price, Change24h |-> change]
Ok200(body) == [net |-> "ok", response |-> [status_code |-> 200, body |-> body]]

\* The outcomes drawn for each of the five fetches of a page render.
RenderUpstreams ==
    {Ok200(ObjectBody(Num(1234500), Num(0 - 21))),
     Ok200(ObjectBody(Num(1234500), Str(1))),
     [net |-> "ReadTimeout", response |-> NoResponse]}

\* Arguments of fetch_price: a str, or a value that is no str.
PyStr(cs) == [t |-> "str", s |-> cs]
NoArg == [t |-> "unset", s |-> <<>>]
USDT(cs) == PyStr(cs \o <<"/", "U", "S", "D", "T">>)
CardSymbols ==
    <<USDT(<<"B", "T", "C">>), USDT(<<"E", "T", "H">>), USDT(<<"X", "M", "R">>),
      USDT(<<"S", "O", "L">>), USDT(<<"X", "R", "P">>)>>
SymbolArgs ==
    Range(CardSymbols)
        \cup {USDT(<<"D", "O", "G", "E">>), USDT(<<"b", "t", "c">>), USDT(<<>>),
              PyStr(<<"B", "T", "C">>), PyStr(<<>>),
              PyStr(<<"B", "T", "C", "-", "U", "S", "D">>),
              PyStr(<<"U", "S", "D", "T", "/", "B", "T", "C">>),
              [t |-> "NoneType", s |-> <<>>]}

\* What the history provider can answer to ticker.history(period='1y').
Layouts ==
    {<<"Open", "High", "Low", "Close", "Volume", "Dividends", "Stock Splits">>,
     <<"Close", "Open", "Volume", "Dividends", "High", "Low">>,
     <<"Open", "High", "Low", "Close">>}
AllLabels ==
    <<"Open", "High", "Low", "Close", "Volume", "Dividends", "Stock Splits">>
LabelCode(label) == CHOOSE k \in 1..Len(AllLabels) : AllLabels[k] = label
Cell(label, day) == 1000 * (100 * day + LabelCode(label)) + 500
Hist(layout, n) ==
    [index_name |-> "Date",
     index |-> [i \in 1..n |-> i],
     columns |-> layout,
     rows |-> [i \in 1..n |-> [k \in 1..Len(layout) |-> Cell(layout[k], i)]]]
NoHist == Hist(<<>>, 0)
ProviderAnswers ==
    {[kind |-> "raise", text |-> "Too Many Requests", hist |-> NoHist]}
        \cup {[kind |-> "frame", text |-> "", hist |-> Hist(l, n)] :
                l \in Layouts, n \in 0..MaxRows}

\* params_form (lines 239-269): a few of the options the widgets offer.
Symbols == {"BTC-USD", "ETH-USD"}
Intervals == {"1m", "1d"}
Periods == {10, 365}
FormDefaults ==
    [update_chart |-> FALSE, symbol |-> "BTC-USD", interval |-> "1m", period |-> 365]

(***************************************************************************)
(* The page render                                                         *)
(***************************************************************************)
NoQuote == <<"", Zero>>

\* ticker.history(period='1y') for a ticker: the request the provider sees.
\* The call passes no interval, so the provider's default of one day applies.
HistoryRequest(symbol_yf) ==
    [symbol |-> symbol_yf, period |-> "1y", interval |-> "1d"]

\* IsEmpty when the emptiness test of line 294 is left out.
IsEmptyNever(hist) == FALSE

\* hist.empty: an axis of the frame has length 0.
IsEmpty(hist) == Len(hist.index) = 0 \/ Len(hist.columns) = 0

\* FetchError without the exception's text.
FetchErrorNoText(text) == "Error fetching data"

\* Line 308: f"Error fetching data: {str(e)}"
FetchError(text) == "Error fetching data: " \o text

\* Line 295: f"No data found for {symbol}"
NoDataFound(symbol) == "No data found for " \o symbol

\* The values every render starts from (hist_df = None is line 221).
FreshRender ==
    /\ cards' = <<>>
    /\ fetched' = <<>>
    /\ gets' = <<>>
    /\ arg' = NoArg
    /\ upstream' = NoUpstream
    /\ quote' = NoQuote
    /\ raised' = ""
    /\ hist_df' = None
    /\ errors' = <<>>
    /\ requests' = <<>>
    /\ answers' = <<>>
    /\ chart' = None
    /\ table' = None

\* Lines 27-34: a new session.  No render has run yet.
Init ==
    /\ chart_loaded = FALSE
    /\ pc = "new"
    /\ cards = <<>>
    /\ fetched = <<>>
    /\ gets = <<>>
    /\ arg = NoArg
    /\ upstream = NoUpstream
    /\ quote = NoQuote
    /\ raised = ""
    /\ form = FormDefaults
    /\ hist_df = None
    /\ errors = <<>>
    /\ requests = <<>>
    /\ answers = <<>>
    /\ chart = None
    /\ table = None
    /\ prev = None

\* The script runs again without a form submission (first load, or a rerun):
\* the form widgets keep their values and the submit button reads False.
Rerun ==
    /\ pc \in {"new", "done", "aborted"}
    /\ pc' = "cards"
    /\ form' = [form EXCEPT !.update_chart = FALSE]
    /\ FreshRender
    /\ UNCHANGED <<chart_loaded, prev>>

\* The user submits params_form (lines 243-275), which a completed render
\* has put on the page: the script runs with the chosen widget values.
Submit ==
    /\ pc = "done"
    /\ pc' = "cards"
    /\ \E s \in Symbols, i \in Intervals, p \in Periods :
          form' = [update_chart |-> TRUE, symbol |-> s, interval |-> i, period |-> p]
    /\ FreshRender
    /\ UNCHANGED <<chart_loaded, prev>>

\* Lines 167-205: the next price card.  The arrow compares the returned
\* change with 0, which raises TypeError when the change is a str; an
\* exception here is caught by nothing and ends the render.
PriceCard ==
    /\ pc = "cards"
    /\ \E up \in RenderUpstreams :
          LET symbol == CardSymbols[Len(cards) + 1]
              r == fetch_price(symbol, up)
              change == r.value[2]
          IN  /\ arg' = symbol
              /\ upstream' = up
              /\ fetched' = Append(fetched, symbol)
              /\ gets' = gets \o r.gets
              /\ IF r.kind = "raise"
                 THEN /\ raised' = r.exc
                      /\ pc' = "aborted"
                      /\ UNCHANGED <<quote, cards>>
                 ELSE /\ quote' = r.value
                      /\ IF change.t # "num"
                         THEN /\ raised' = "TypeError"
                              /\ pc' = "aborted"
                              /\ UNCHANGED cards
                         ELSE /\ cards' = Append(cards,
                                    [price |-> r.value[1],
                                     arrow |-> IF change.v >= 0 THEN "up" ELSE "down"])
                              /\ pc' = IF Len(cards) + 1 = Len(CardSymbols)
                                       THEN "form" ELSE "cards"
                              /\ UNCHANGED raised
    /\ UNCHANGED <<chart_loaded, form, hist_df, errors, requests, answers,
                   chart, table, prev>>

\* Lines 282-309: the chart update logic of the form.
ChartUpdate ==
    /\ pc = "form"
    /\ pc' = "autoload"
    /\ IF form.update_chart
       THEN \E a \in ProviderAnswers :
               LET t == Transform(a.hist)
               IN  /\ requests' = Append(requests, HistoryRequest(form.symbol))
                   /\ answers' = Append(answers, a)
                   /\ prev' = Some([symbol |-> form.symbol,
                                    interval |-> form.interval,
                                    period |-> form.period,
                                    request |-> HistoryRequest(form.symbol)])
                   /\ IF a.kind = "raise"
                      THEN /\ errors' = Append(errors, FetchError(a.text))
                           /\ hist_df' = None
                      ELSE IF IsEmpty(a.hist)
                      THEN /\ errors' = Append(errors, NoDataFound(form.symbol))
                           /\ hist_df' = None
                      ELSE IF t.kind = "raise"
                      THEN /\ errors' = Append(errors, FetchError(t.text))
                           /\ hist_df' = None
                      ELSE /\ hist_df' = t.df
                           /\ UNCHANGED errors
       ELSE UNCHANGED <<requests, answers, prev, errors, hist_df>>
    /\ UNCHANGED <<chart_loaded, cards, fetched, gets, arg, upstream, quote,
                   raised, form, chart, table>>

\* AutoLoad with line 331 outside the emptiness test: the flag is set after
\* every default fetch that did not raise.
AutoLoadMarksEmpty ==
    /\ pc = "autoload"
    /\ pc' = "display"
    /\ IF ~chart_loaded
       THEN \E a \in ProviderAnswers :
               LET t == Transform(a.hist)
               IN  /\ requests' = Append(requests, HistoryRequest("BTC-USD"))
                   /\ answers' = Append(answers, a)
                   /\ IF a.kind = "raise"
                      THEN /\ hist_df' = None
                           /\ UNCHANGED chart_loaded
                      ELSE IF IsEmpty(a.hist)
                      THEN /\ UNCHANGED hist_df
                           /\ chart_loaded' = TRUE
                      ELSE IF t.kind = "raise"
                      THEN /\ hist_df' = None
                           /\ UNCHANGED chart_loaded
                      ELSE /\ hist_df' = t.df
                           /\ chart_loaded' = TRUE
       ELSE UNCHANGED <<requests, answers, hist_df, chart_loaded>>
    /\ UNCHANGED <<cards, fetched, gets, arg, upstream, quote, raised, form,
                   errors, chart, table, prev>>

\* Lines 316-334: the default BTC-USD chart, while chart_loaded is False.
AutoLoad ==
    /\ pc = "autoload"
    /\ pc' = "display"
    /\ IF ~chart_loaded
       THEN \E a \in ProviderAnswers :
               LET t == Transform(a.hist)
               IN  /\ requests' = Append(requests, HistoryRequest("BTC-USD"))
                   /\ answers' = Append(answers, a)
                   /\ IF a.kind = "raise"
                      THEN /\ hist_df' = None
                           /\ UNCHANGED chart_loaded
                      ELSE IF IsEmpty(a.hist)
                      THEN UNCHANGED <<hist_df, chart_loaded>>
                      ELSE IF t.kind = "raise"
                      THEN /\ hist_df' = None
                           /\ UNCHANGED chart_loaded
                      ELSE /\ hist_df' = t.df
                           /\ chart_loaded' = TRUE
       ELSE UNCHANGED <<requests, answers, hist_df, chart_loaded>>
    /\ UNCHANGED <<cards, fetched, gets, arg, upstream, quote, raised, form,
                   errors, chart, table, prev>>

\* Lines 339-441: the chart and the data table, when there is a series.
Display ==
    /\ pc = "display"
    /\ pc' = "done"
    /\ IF hist_df # None
       THEN /\ chart' = hist_df
            /\ table' = Some(DisplayFrame(hist_df[1]))
       ELSE UNCHANGED <<chart, table>>
    /\ UNCHANGED <<chart_loaded, cards, fetched, gets, arg, upstream, quote,
                   raised, form, hist_df, errors, requests, answers, prev>>

Next == Rerun \/ Submit \/ PriceCard \/ ChartUpdate \/ AutoLoad \/ Display

Spec == Init /\ [][Next]_vars

(***************************************************************************)
(* fetch_price on its own: every argument against every upstream outcome   *)
(***************************************************************************)
InitFetch ==
    /\ chart_loaded = FALSE
    /\ pc = "fetch"
    /\ cards = <<>>
    /\ fetched = <<>>
    /\ gets = <<>>
    /\ arg \in SymbolArgs
    /\ upstream \in Upstreams
    /\ quote = NoQuote
    /\ raised = ""
    /\ form = FormDefaults
    /\ hist_df = None
    /\ errors = <<>>
    /\ requests = <<>>
    /\ answers = <<>>
    /\ chart = None
    /\ table = None
    /\ prev = None

\* One call fetch_price(arg) with the quotation API behaving as upstream.
CallFetchPrice ==
    /\ pc = "fetch"
    /\ LET r == fetch_price(arg, upstream)
       IN  /\ pc' = IF r.kind = "raise" THEN "raised" ELSE "returned"
           /\ quote' = r.value
           /\ raised' = r.exc
           /\ gets' = r.gets
           /\ fetched' = <<arg>>
    /\ UNCHANGED <<chart_loaded, cards, arg, upstream, form, hist_df, errors,
                   requests, answers, chart, table, prev>>

NextFetch == CallFetchPrice

SpecFetch == InitFetch /\ [][NextFetch]_vars

(***************************************************************************)
(* Claims about fetch_price, checked under SpecFetch                       *)
(***************************************************************************)
Sentinels ==
    {"Symbol not supported", "API Error", "Price not available",
     "Request timeout", "Error"}

\* The display string expected for each Price the inputs hold: '$', the
\* value grouped by thousands, two fractional digits.
ExpectedPrice(mills) ==
    CASE mills = 1234500 -> "$1,234.50"
      [] mills = 125 -> "$0.12"
      [] mills = 1000000000 -> "$1,000,000.00"
      [] OTHER -> "?"

RECURSIVE LeftOf(_)
\* The text before the first '/' of a symbol.
LeftOf(cs) ==
    IF cs = <<>> \/ Head(cs) = "/" THEN <<>> ELSE <<Head(cs)>> \o LeftOf(Tail(cs))

AssetCodes ==
    {<<"B", "T", "C">>, <<"E", "T", "H">>, <<"X", "M", "R">>, <<"S", "O", "L">>,
     <<"X", "R", "P">>}

Called == pc \in {"returned", "raised"}
Supported == arg.t = "str" /\ LeftOf(arg.s) \in AssetCodes
Body == upstream.response.body
Answered200 == upstream.net = "ok" /\ upstream.response.status_code = 200
Succeeded ==
    Supported /\ Answered200 /\ Body.kind = "object" /\ Body.Price.t = "num"

\* C1: fetch_price never raises: for every symbol argument and every
\* upstream outcome the call returns, and the first component of what it
\* returns is a formatted price string or one of the five sentinels.
C1_NeverRaises ==
    Called =>
        /\ pc = "returned"
        /\ raised = ""
        /\ \/ quote[1] \in Sentinels
           \/ Succeeded /\ quote[1] = ExpectedPrice(Body.Price.v)

\* A connection failure on a supported symbol came back as a sentinel.
C1_Witness ==
    /\ pc = "returned"
    /\ Supported
    /\ upstream.net = "ConnectError"
    /\ quote[1] = "Error"

\* C2: a symbol whose left-hand segment is none of BTC, ETH, XMR, SOL, XRP
\* yields ("Symbol not supported", 0) and no network call.
C2_UnsupportedNoCall ==
    (Called /\ arg.t = "str" /\ LeftOf(arg.s) \notin AssetCodes) =>
        /\ pc = "returned"
        /\ quote = <<"Symbol not supported", Zero>>
        /\ gets = <<>>

\* DOGE/USDT was refused without a request although the API would have
\* answered with a price.
C2_Witness ==
    /\ pc = "returned"
    /\ arg = USDT(<<"D", "O", "G", "E">>)
    /\ Answered200 /\ Body.kind = "object" /\ Body.Price.t = "num"
    /\ quote[1] = "Symbol not supported"
    /\ gets = <<>>

\* C3: for a supported symbol each failure mode has its own sentinel, in
\* this order: a timeout gives "Request timeout"; a status other than 200
\* gives "API Error" whatever the body; a 200 object whose Price is absent
\* or null gives "Price not available" whatever Change24h is; every other
\* exception (connection failure, malformed JSON, a body or a Price of an
\* unexpected type) gives "Error".  The change is 0 in each case.
C3_FailureOrder ==
    (Called /\ Supported) =>
        /\ upstream.net \in {"ReadTimeout", "ConnectTimeout"}
              => quote = <<"Request timeout", Zero>>
        /\ (upstream.net = "ok" /\ upstream.response.status_code # 200)
              => quote = <<"API Error", Zero>>
        /\ (Answered200 /\ Body.kind = "object"
                /\ Body.Price.t \in {"absent", "null"})
              => quote = <<"Price not available", Zero>>
        /\ (\/ upstream.net = "ConnectError"
            \/ Answered200 /\ Body.kind \in {"malformed", "list"}
            \/ Answered200 /\ Body.kind = "object" /\ Body.Price.t = "str")
              => quote = <<"Error", Zero>>

\* A 500 response with an unparsable body was reported as "API Error".
C3_Witness ==
    /\ pc = "returned"
    /\ Supported
    /\ upstream.net = "ok"
    /\ upstream.response.status_code = 500
    /\ Body.kind = "malformed"
    /\ quote = <<"API Error", Zero>>

\* C4: the returned change_percent is 0 on every error path and when
\* Change24h is absent or null in a successful response; otherwise it is
\* the response's Change24h, returned with the formatted Price.  The
\* response {"Price": 1234.5, "Change24h": -2.1} gives ("$1,234.50", -2.1).
C4_ChangePercent ==
    Called =>
        /\ quote[1] \in Sentinels => quote[2] = Zero
        /\ ~Succeeded => quote[1] \in Sentinels
        /\ Succeeded =>
              /\ quote[1] = ExpectedPrice(Body.Price.v)
              /\ quote[2] = IF Body.Change24h.t \in {"absent", "null"}
                            THEN Zero ELSE Body.Change24h
        /\ (Succeeded /\ Body.Price = Num(1234500)
                /\ Body.Change24h = Num(0 - 21))
              => quote = <<"$1,234.50", Num(0 - 21)>>

\* A successful response whose Change24h is null came back with change 0.
C4_Witness ==
    /\ pc = "returned"
    /\ Succeeded
    /\ Body.Change24h = Null
    /\ quote = <<ExpectedPrice(Body.Price.v), Zero>>

(***************************************************************************)
(* Claims about the page render, checked under Spec                        *)
(***************************************************************************)
PastCards == pc \in {"form", "autoload", "display", "done"}
RenderEnded == pc \in {"done", "aborted"}

\* C5: every render stays available whatever the quotation API returns,
\* a 200 response whose Change24h is not a number included: no uncaught
\* exception ends the render, and once the script is past the card section
\* all five cards are on the page, each with a price or a sentinel.
C5_RenderStaysAvailable ==
    /\ pc # "aborted"
    /\ raised = ""
    /\ PastCards =>
          /\ Len(cards) = 5
          /\ \A i \in 1..5 : cards[i].price \in Sentinels \cup {"$1,234.50"}

\* C10: each render invokes fetch_price once for each of the five tracked
\* symbols, in the order BTC, ETH, XMR, SOL, XRP, and each invocation issues
\* exactly one GET, whatever the requests' outcomes.
C10_FiveFetchesFiveGets ==
    /\ Len(gets) = Len(fetched)
    /\ fetched = SubSeq(CardSymbols, 1, Len(fetched))
    /\ RenderEnded => fetched = CardSymbols

\* C6: two form submissions for the same symbol that differ in period or
\* interval request different series from the market-data provider.
C6_PeriodIntervalRequested ==
    [][(/\ prev # None
        /\ prev' # None
        /\ prev'[1].symbol = prev[1].symbol
        /\ \/ prev'[1].period # prev[1].period
           \/ prev'[1].interval # prev[1].interval)
            => prev'[1].request # prev[1].request]_vars

\* How a history fetch went, judged from the provider's answer alone.
Failed(a) ==
    \/ a.kind = "raise"
    \/ /\ a.kind = "frame"
       /\ ~(Len(a.hist.index) = 0 \/ Len(a.hist.columns) = 0)
       /\ ~(Range(OhlcvLabels) \subseteq Range(a.hist.columns) \cup {a.hist.index_name})
CameBackEmpty(a) ==
    a.kind = "frame" /\ (Len(a.hist.index) = 0 \/ Len(a.hist.columns) = 0)
Usable(a) == a.kind = "frame" /\ ~CameBackEmpty(a) /\ ~Failed(a)

\* The original error text of a failed fetch.
ErrorText(a) ==
    IF a.kind = "raise" THEN a.text ELSE "\"['Volume'] not in index\""

\* The form's fetch and the default fetch of the current render.
FormFetched == form.update_chart /\ PastCards /\ pc # "form"
DefaultFetched ==
    /\ pc \in {"display", "done"}
    /\ Len(requests) = (IF form.update_chart THEN 2 ELSE 1)
FormAnswer == answers[1]
DefaultAnswer == answers[Len(answers)]
Shown(message) == \E i \in 1..Len(errors) : errors[i] = message

\* C7 as stated: every transport or parsing failure of a history fetch, in
\* the form path and in the default-load path alike, is caught, shown as a
\* message holding the original error text, and leaves hist_df None when
\* the failing handler ends.
C7_EveryFailureSurfaced ==
    /\ (FormFetched /\ Failed(FormAnswer)) =>
          /\ Shown("Error fetching data: " \o ErrorText(FormAnswer))
          /\ pc = "autoload" => hist_df = None
    /\ (DefaultFetched /\ Failed(DefaultAnswer)) =>
          /\ Shown("Error fetching data: " \o ErrorText(DefaultAnswer))
          /\ hist_df = None

\* C7 amended: every such failure is caught and leaves hist_df None when
\* the failing handler ends; the form path shows the message "Error
\* fetching data: " followed by the original error text, the default-load
\* path shows no message at all.
C7_FormSurfacedDefaultSilent ==
    /\ (FormFetched /\ Failed(FormAnswer)) =>
          /\ errors = <<"Error fetching data: " \o ErrorText(FormAnswer)>>
          /\ pc = "autoload" => hist_df = None
    /\ (DefaultFetched /\ Failed(DefaultAnswer)) =>
          /\ hist_df = None
          /\ chart = None
          /\ table = None
          /\ Len(errors) = (IF form.update_chart /\ ~Usable(FormAnswer) THEN 1 ELSE 0)
    /\ (PastCards /\ ~form.update_chart) => errors = <<>>

\* Both paths failed in one render: the form's failure is on the page, the
\* default load's is not, and the render went on to its end.
C7_Witness ==
    /\ pc = "done"
    /\ form.update_chart
    /\ Len(requests) = 2
    /\ FormAnswer.kind = "raise"
    /\ Failed(DefaultAnswer) /\ DefaultAnswer.kind = "frame"
    /\ errors = <<"Error fetching data: Too Many Requests">>
    /\ hist_df = None

\* C8 as stated: when the form's fetch comes back empty, "No data found
\* for {symbol}" is shown and neither the chart nor the table is rendered
\* in that render.
C8_EmptyShowsNothing ==
    (pc = "done" /\ form.update_chart /\ CameBackEmpty(FormAnswer)) =>
        /\ Shown("No data found for " \o form.symbol)
        /\ chart = None
        /\ table = None

\* C8 amended: when the form's fetch comes back empty, "No data found for
\* {symbol}" is shown and the form path leaves hist_df None; the chart and
\* the table are rendered in that render only if chart_loaded was still
\* False and the default BTC-USD load of the same render produced a series.
C8_EmptyShowsOnlyDefault ==
    (FormFetched /\ CameBackEmpty(FormAnswer)) =>
        /\ Shown("No data found for " \o form.symbol)
        /\ pc = "autoload" => hist_df = None
        /\ pc = "done" =>
              IF Len(requests) = 2 /\ Usable(DefaultAnswer)
              THEN /\ chart # None
                   /\ table # None
                   /\ requests[2].symbol = "BTC-USD"
                   /\ Len(chart[1].rows) = Len(DefaultAnswer.hist.index)
              ELSE chart = None /\ table = None

\* An empty answer for ETH-USD in a render whose default load also gave
\* nothing: the message is shown and nothing is drawn.
C8_Witness ==
    /\ pc = "done"
    /\ form.update_chart
    /\ form.symbol = "ETH-USD"
    /\ CameBackEmpty(FormAnswer)
    /\ errors = <<"No data found for ETH-USD">>
    /\ chart = None
    /\ table = None

\* The row the provider holds for a day, reduced to the six OHLCV fields.
OhlcvRow(day) ==
    <<day, Cell("Open", day), Cell("High", day), Cell("Low", day),
      Cell("Close", day), Cell("Volume", day)>>

\* A series that consists of the provider's rows of one of this render's
\* answers, in the provider's order, under the six canonical names.
IsSeriesOf(df, a) ==
    /\ df.columns = <<"time", "open", "high", "low", "close", "volume">>
    /\ Len(df.rows) = Len(a.hist.index)
    /\ \A r \in 1..Len(df.rows) : df.rows[r] = OhlcvRow(a.hist.index[r])

\* C9: a series that reaches the chart or the table has exactly the fields
\* time, open, high, low, close, volume in that order, no other provider
\* column, and the provider's rows in the provider's order.
C9_CanonicalSeries ==
    /\ (pc \in {"display", "done"} /\ hist_df # None) =>
          \E i \in 1..Len(answers) :
              Usable(answers[i]) /\ IsSeriesOf(hist_df[1], answers[i])
    /\ chart # None =>
          /\ chart = hist_df
          /\ table # None
          /\ table[1].columns = chart[1].columns
          /\ Len(table[1].rows) = Len(chart[1].rows)
    /\ chart = None => table = None

\* A two-row answer that carried Dividends and Stock Splits was charted.
C9_Witness ==
    /\ pc = "done"
    /\ chart # None
    /\ Len(chart[1].rows) = 2
    /\ \E i \in 1..Len(answers) :
          /\ "Dividends" \in Range(answers[i].hist.columns)
          /\ IsSeriesOf(chart[1], answers[i])

\* C11: in a render in which the form was submitted and the submitted
\* symbol's fetch returned a non-empty series, the chart and the table of
\* that render show that series, whatever chart_loaded is and whatever the
\* default BTC-USD load of the same render did.
C11_SubmittedSeriesShown ==
    (pc = "done" /\ form.update_chart /\ Usable(FormAnswer)) =>
        /\ requests[1].symbol = form.symbol
        /\ chart # None
        /\ IsSeriesOf(chart[1], FormAnswer)
        /\ table # None
        /\ Len(table[1].rows) = Len(FormAnswer.hist.index)

\* The default fetch of the step being taken: one more request, for BTC-USD.
DefaultFetchNow ==
    /\ Len(requests') = Len(requests) + 1
    /\ requests'[Len(requests')].symbol = "BTC-USD"
    /\ Len(answers') = Len(requests')

\* C12: within a session chart_loaded starts False, becomes True only in a
\* render whose default BTC-USD fetch returned a non-empty series, and is
\* never reset to False; the default fetch is attempted in a render exactly
\* when the flag is False as the script reaches the auto-load block, hence
\* in every render that reaches it until the first success, never after.
C12_FlagMonotonic ==
    /\ [](pc = "new" => ~chart_loaded)
    /\ [][/\ chart_loaded => chart_loaded'
          /\ (~chart_loaded /\ chart_loaded') =>
                /\ pc = "autoload"
                /\ DefaultFetchNow
                /\ answers'[Len(answers')].kind = "frame"
                /\ Len(answers'[Len(answers')].hist.index) > 0
                /\ hist_df' # None
          /\ pc = "autoload" => (DefaultFetchNow <=> ~chart_loaded)
          /\ pc # "autoload" =>
                \/ requests' = <<>>
                \/ Len(requests') <= 1 /\ form.update_chart /\ pc = "form"
                \/ requests' = requests]_vars

\* A render ran to its end after the flag was set and fetched no history.
C12_Witness ==
    /\ pc = "done"
    /\ chart_loaded
    /\ ~form.update_chart
    /\ requests = <<>>
    /\ Len(cards) = 5

====
